---- MODULE Spec2Model ----
(***************************************************************************)
(* python-daachorse: the Automaton class of src/lib.rs, a Python binding   *)
(* around a character-wise Aho-Corasick automaton.  Strings are sequences  *)
(* of codepoints on the Python side and UTF-8 byte sequences on the Rust   *)
(* side; the automaton reports byte offsets, which every tuple-returning   *)
(* query translates to codepoint offsets through its own pos_map.          *)
(***************************************************************************)
EXTENDS Integers, Sequences, FiniteSets, TLC

\* ------------------------------------------------------------------ bounds
MaxPatterns == 1
MaxPatternLen == 1
MaxHaystackLen == 4
NumCallers == 2

\* 'a' (one byte in UTF-8) and U+00E9 (two bytes in UTF-8)
Alphabet == {97, 233}

Strs(n) == UNION {[1..k -> Alphabet] : k \in 0..n}

\* The pattern lists and the haystack of the doc examples of src/lib.rs.
DocPatternLists ==
    { << <<98, 99, 100>>, <<97, 98>>, <<97>> >>,
      << <<97, 98>>, <<97>>, <<97, 98, 99, 100>> >>,
      << <<98, 99, 100>>, <<99, 100>>, <<97, 98, 99>> >> }

DocHaystack == <<97, 98, 99, 100>>

\* A node that ends no pattern and has a pattern as a proper suffix of its
\* path ('aa' with patterns 'a', 'aaa'), once in one-byte and once with
\* two-byte characters.
SuffixPatternLists ==
    { << <<97>>, <<97, 97, 97>> >>,
      << <<233>>, <<97, 233, 97>> >> }

PatternLists ==
    DocPatternLists \cup SuffixPatternLists \cup UNION {[1..k -> Strs(MaxPatternLen)] : k \in 1..MaxPatterns}

Haystacks == {DocHaystack} \cup Strs(MaxHaystackLen)

MatchKinds == {"Standard", "LeftmostLongest", "LeftmostFirst"}

\* ------------------------------------------------- strings across the FFI
\* A Python str extracted as a Rust String / &str: its UTF-8 encoding.
Utf8Char(c) ==
    IF c < 128 THEN <<c>>
    ELSE IF c < 2048 THEN <<192 + (c \div 64), 128 + (c % 64)>>
    ELSE IF c < 65536
         THEN <<224 + (c \div 4096), 128 + ((c \div 64) % 64), 128 + (c % 64)>>
         ELSE <<240 + (c \div 262144), 128 + ((c \div 4096) % 64),
                128 + ((c \div 64) % 64), 128 + (c % 64)>>

RECURSIVE extract(_)
extract(s) == IF s = <<>> THEN <<>> ELSE Utf8Char(Head(s)) \o extract(Tail(s))

\* Width in bytes of the character whose leading byte is b.
CharWidth(b) == IF b < 128 THEN 1 ELSE IF b < 224 THEN 2 ELSE IF b < 240 THEN 3 ELSE 4

\* The character stored at 1-based byte index k of the UTF-8 string bytes.
DecodeAt(bytes, k) ==
    LET w == CharWidth(bytes[k]) IN
    IF w = 1 THEN bytes[k]
    ELSE IF w = 2 THEN (bytes[k] - 192) * 64 + (bytes[k + 1] - 128)
    ELSE IF w = 3 THEN (bytes[k] - 224) * 4096 + (bytes[k + 1] - 128) * 64
                       + (bytes[k + 2] - 128)
    ELSE (bytes[k] - 240) * 262144 + (bytes[k + 1] - 128) * 4096
         + (bytes[k + 2] - 128) * 64 + (bytes[k + 3] - 128)

\* str::char_indices: the pairs <<j, c>>, j the 0-based byte offset at which
\* character c begins.
RECURSIVE CharIndicesFrom(_, _)
CharIndicesFrom(bytes, k) ==
    IF k > Len(bytes) THEN <<>>
    ELSE <<<<k - 1, DecodeAt(bytes, k)>>>>
         \o CharIndicesFrom(bytes, k + CharWidth(bytes[k]))

char_indices(bytes) == CharIndicesFrom(bytes, 1)

\* str::chars
chars(bytes) == [i \in 1..Len(char_indices(bytes)) |-> char_indices(bytes)[i][2]]

\* The automaton's haystack iterator: each character with the byte offset
\* just after it.
CharWithEndOffset(bytes) ==
    [i \in 1..Len(char_indices(bytes)) |->
        <<char_indices(bytes)[i][1] + Len(Utf8Char(char_indices(bytes)[i][2])),
          char_indices(bytes)[i][2]>>]

\* ------------------------------------------------ the wrapped automaton
ROOT == <<>>
DEAD == <<-2>>
NoOutput == <<0, 0>>

IsLeftmost(kind) == kind \in {"LeftmostLongest", "LeftmostFirst"}

Prefixes(p) == {SubSeq(p, 1, k) : k \in 0..Len(p)}

\* One pattern added to the trie.  nfa = [states, output, error]; the output
\* of a state is <<value, byte length>>, length 0 for none.
NfaAdd(nfa, raw, value, kind) ==
    LET p == chars(raw)
        passed == {SubSeq(p, 1, k) : k \in 0..(Len(p) - 1)}
        shadowed == /\ kind = "LeftmostFirst"
                    /\ \E s \in passed \cap nfa.states : nfa.output[s][2] # 0
        states == nfa.states \cup Prefixes(p)
    IN  IF nfa.error THEN nfa
        ELSE IF raw = <<>> THEN [nfa EXCEPT !.error = TRUE]
        ELSE IF shadowed THEN nfa
        ELSE IF p \in nfa.states /\ nfa.output[p][2] # 0
             THEN [nfa EXCEPT !.error = TRUE]
        ELSE [states |-> states,
              output |-> [s \in states |->
                            IF s = p THEN <<value, Len(raw)>>
                            ELSE IF s \in nfa.states THEN nfa.output[s]
                            ELSE NoOutput],
              error |-> FALSE]

RECURSIVE NfaAddAll(_, _, _, _)
NfaAddAll(nfa, raws, i, kind) ==
    IF i > Len(raws) THEN nfa
    ELSE NfaAddAll(NfaAdd(nfa, raws[i], i - 1, kind), raws, i + 1, kind)

\* NfaBuilder::new: the root state and the dead state.
EmptyNfa ==
    [states |-> {ROOT, DEAD}, output |-> [s \in {ROOT, DEAD} |-> NoOutput], error |-> FALSE]

\* Failure links, breadth first: a state's link is final once the state has
\* been taken from the queue, which for a leftmost automaton replaces the
\* link of a state with an output by DEAD.
RECURSIVE FailOf(_, _, _)
RECURSIVE FailLoop(_, _, _, _)
FailLoop(nfa, kind, f, c) ==
    IF Append(f, c) \in nfa.states THEN Append(f, c)
    ELSE LET n == FailOf(nfa, kind, f) IN
         IF IsLeftmost(kind) /\ n = DEAD THEN DEAD
         ELSE IF f = ROOT /\ n = ROOT THEN ROOT
         ELSE FailLoop(nfa, kind, n, c)

FailOf(nfa, kind, s) ==
    IF s \in {ROOT, DEAD} THEN ROOT
    ELSE IF IsLeftmost(kind) /\ nfa.output[s][2] # 0 THEN DEAD
    ELSE IF Len(s) = 1 THEN ROOT
    ELSE LET f == FailOf(nfa, kind, SubSeq(s, 1, Len(s) - 1)) IN
         IF IsLeftmost(kind) /\ f = DEAD THEN DEAD
         ELSE FailLoop(nfa, kind, f, s[Len(s)])

\* The merged outputs of a state: its own output, then those of its failure
\* chain, longest first.
RECURSIVE OutputsOf(_, _, _)
OutputsOf(nfa, kind, s) ==
    IF s \in {ROOT, DEAD} THEN <<>>
    ELSE LET own == IF nfa.output[s][2] # 0 THEN <<nfa.output[s]>> ELSE <<>>
             f == FailOf(nfa, kind, s)
         IN  IF f = DEAD THEN own ELSE own \o OutputsOf(nfa, kind, f)

\* CharwiseDoubleArrayAhoCorasickBuilder::new().match_kind(kind).build(raws)
Build(raws, kind) ==
    LET nfa == NfaAddAll(EmptyNfa, raws, 1, kind) IN
    IF nfa.error THEN [error |-> TRUE]
    ELSE [error |-> FALSE,
          states |-> nfa.states,
          fail |-> [s \in nfa.states |-> FailOf(nfa, kind, s)],
          output |-> nfa.output,
          outputs |-> [s \in nfa.states |-> OutputsOf(nfa, kind, s)]]

RECURSIVE next_state_id(_, _, _)
next_state_id(a, s, c) ==
    IF Append(s, c) \in a.states THEN Append(s, c)
    ELSE IF s = ROOT THEN ROOT
    ELSE next_state_id(a, a.fail[s], c)

RECURSIVE next_state_id_leftmost(_, _, _)
next_state_id_leftmost(a, s, c) ==
    IF Append(s, c) \in a.states THEN Append(s, c)
    ELSE IF s = ROOT THEN ROOT
    ELSE IF a.fail[s] = DEAD THEN DEAD
    ELSE next_state_id_leftmost(a, a.fail[s], c)

\* A match in byte offsets, <<start, end, value>>, from an output and the
\* byte offset at which it ends.
Match(out, end) == <<end - out[2], end, out[1]>>

RECURSIVE FindIterFrom(_, _, _, _, _)
FindIterFrom(a, ce, i, s, acc) ==
    IF i > Len(ce) THEN acc
    ELSE LET t == next_state_id(a, s, ce[i][2]) IN
         IF a.outputs[t] # <<>>
         THEN FindIterFrom(a, ce, i + 1, ROOT, Append(acc, Match(a.outputs[t][1], ce[i][1])))
         ELSE FindIterFrom(a, ce, i + 1, t, acc)

find_iter(a, bytes) == FindIterFrom(a, CharWithEndOffset(bytes), 1, ROOT, <<>>)

RECURSIVE FindOverlappingIterFrom(_, _, _, _, _)
FindOverlappingIterFrom(a, ce, i, s, acc) ==
    IF i > Len(ce) THEN acc
    ELSE LET t == next_state_id(a, s, ce[i][2]) IN
         FindOverlappingIterFrom(a, ce, i + 1, t,
             acc \o [k \in 1..Len(a.outputs[t]) |-> Match(a.outputs[t][k], ce[i][1])])

find_overlapping_iter(a, bytes) ==
    FindOverlappingIterFrom(a, CharWithEndOffset(bytes), 1, ROOT, <<>>)

\* The no-suffix iterator consults only the direct output of the state it
\* reaches, the pattern that ends exactly there, and none inherited through
\* the failure chain.
RECURSIVE FindOverlappingNoSuffixIterFrom(_, _, _, _, _)
FindOverlappingNoSuffixIterFrom(a, ce, i, s, acc) ==
    IF i > Len(ce) THEN acc
    ELSE LET t == next_state_id(a, s, ce[i][2]) IN
         FindOverlappingNoSuffixIterFrom(a, ce, i + 1, t,
             IF a.output[t] # NoOutput
             THEN Append(acc, Match(a.output[t], ce[i][1]))
             ELSE acc)

find_overlapping_no_suffix_iter(a, bytes) ==
    FindOverlappingNoSuffixIterFrom(a, CharWithEndOffset(bytes), 1, ROOT, <<>>)

\* One leftmost scan from character i: the last output seen, with the index
\* of the character it ends at, before the dead state or the end.
RECURSIVE LeftmostScan(_, _, _, _, _)
LeftmostScan(a, ce, i, s, last) ==
    IF i > Len(ce) THEN last
    ELSE LET t == next_state_id_leftmost(a, s, ce[i][2]) IN
         IF t = DEAD THEN last
         ELSE IF a.outputs[t] # <<>>
              THEN LeftmostScan(a, ce, i + 1, t, <<a.outputs[t][1], i>>)
              ELSE LeftmostScan(a, ce, i + 1, t, last)

RECURSIVE LeftmostFindIterFrom(_, _, _, _)
LeftmostFindIterFrom(a, ce, i, acc) ==
    LET last == LeftmostScan(a, ce, i, ROOT, <<>>) IN
    IF last = <<>> THEN acc
    ELSE LeftmostFindIterFrom(a, ce, last[2] + 1,
                              Append(acc, Match(last[1], ce[last[2]][1])))

leftmost_find_iter(a, bytes) == LeftmostFindIterFrom(a, CharWithEndOffset(bytes), 1, <<>>)

\* --------------------------------------------------------- src/lib.rs
Ok(v) == [kind |-> "Ok", value |-> v]
ValueError(msg) == [kind |-> "ValueError", msg |-> msg]
None == [kind |-> "None"]
\* The process ends inside the call (SIGSEGV, abort): nothing is returned.
Crashed == [kind |-> "Crashed"]

MustBeStandard == "match_kind must be STANDARD"

\* Mutant of NotStandard: the guard forgets LeftmostFirst.
NotStandardLongestOnly(kind) == kind = "LeftmostLongest"

\* self_.match_kind != MatchKind::Standard
NotStandard(kind) == kind # "Standard"

\* Mutant of LocalPosMap: one buffer shared by every call.
SharedPosMap(all, t, pm) == [u \in DOMAIN all |-> pm]

\* The pos_map of a call is a local of that call.
LocalPosMap(all, t, pm) == [all EXCEPT ![t] = pm]

\* let mut pos_map = vec![0; haystack.len() + 1].  Entry j of the vector is
\* element j + 1 of the sequence.
AllocPosMap(bytes) == [j \in 1..(Len(bytes) + 1) |-> 0]

\* Unchecked 0-based indexing into a vector: the set of values the read can
\* produce.  An index inside the vector reads that element.  An index
\* outside it is undefined behaviour: the read yields whatever the memory
\* there holds, any value of junk (for a vector of usize: any word, Usize),
\* or the process ends (InBounds is false).
InBounds(v, i) == (i + 1) \in DOMAIN v
get_unchecked(v, i, junk) == IF InBounds(v, i) THEN {v[i + 1]} ELSE junk

\* Every write of the loop, and the write of the last entry, is inside pm.
FillInBounds(pm, bytes) ==
    /\ pm # <<>>
    /\ \A i \in 1..Len(char_indices(bytes)) : InBounds(pm, char_indices(bytes)[i][1])

\* The loop over char_indices().enumerate(), then the write of the last
\* entry with len_in_chars + 1.
FillPosMap(pm, bytes) ==
    LET ci == char_indices(bytes)
        filled == [j \in DOMAIN pm |->
                     IF \E i \in 1..Len(ci) : ci[i][1] = j - 1
                     THEN (CHOOSE i \in 1..Len(ci) : ci[i][1] = j - 1) - 1
                     ELSE pm[j]]
        len_in_chars == IF ci = <<>> THEN 0 ELSE Len(ci) - 1
    IN  IF pm = <<>> THEN pm ELSE [filled EXCEPT ![Len(pm)] = len_in_chars + 1]

PosMap(bytes) == FillPosMap(AllocPosMap(bytes), bytes)
\* Every value of a usize: what an out-of-bounds read of pos_map can yield
\* (a stale index, a length, an address, any bit pattern).
Usize == Nat

\* Strings an out-of-bounds read of a Py<PyString> can yield: some object
\* that is no pattern, or by chance one of the stored strings.
JunkStrings(pats) == {<<0>>} \cup {pats[k] : k \in 1..Len(pats)}

\* Mutant of Translate: the byte offsets are returned as they are.
TranslateRaw(pm, ms) == {Ok([k \in 1..Len(ms) |-> <<ms[k][1], ms[k][2], ms[k][3]>>])}

\* Every offset of every match is inside pos_map.
TranslateInBounds(pm, ms) ==
    \A k \in 1..Len(ms) : InBounds(pm, ms[k][1]) /\ InBounds(pm, ms[k][2])

\* .map(|m| (pos_map[m.start()], pos_map[m.end()], m.value())).collect():
\* the outcomes of the closure.  One outcome, Ok of the translated vector,
\* when every offset is inside pos_map.  Otherwise the process ends, or the
\* closure returns a vector in which each read inside pos_map is the element
\* and each read outside it is any word.
Translate(pm, ms) ==
    IF TranslateInBounds(pm, ms)
    THEN {Ok([k \in 1..Len(ms) |-> <<pm[ms[k][1] + 1], pm[ms[k][2] + 1], ms[k][3]>>])}
    ELSE {Crashed}
         \cup {r \in [kind : {"Ok"}, value : Seq(Usize \X Usize \X Usize)] :
                 /\ Len(r.value) = Len(ms)
                 /\ \A k \in 1..Len(ms) :
                        /\ r.value[k][1] \in get_unchecked(pm, ms[k][1], Usize)
                        /\ r.value[k][2] \in get_unchecked(pm, ms[k][2], Usize)
                        /\ r.value[k][3] = ms[k][3]}

\* .map(|m| m.value()).collect()
Values(ms) == [k \in 1..Len(ms) |-> ms[k][3]]

RECURSIVE LookupFrom(_, _, _, _)
LookupFrom(pats, ids, k, shift) ==
    IF k > Len(ids) THEN {<<>>}
    ELSE {<<s>> \o rest :
              s \in get_unchecked(pats, ids[k] + shift, JunkStrings(pats)),
              rest \in LookupFrom(pats, ids, k + 1, shift)}

\* Mutant of Lookup: the pattern list is indexed one too far.
LookupOffByOne(pats, ids) ==
    {Ok(v) : v \in LookupFrom(pats, ids, 1, 1)}
    \cup (IF \A k \in 1..Len(ids) : InBounds(pats, ids[k] + 1) THEN {} ELSE {Crashed})

\* .map(|i| self_.patterns.get_unchecked(i).clone_ref(py)).collect(): the
\* outcomes of the lookup.  One outcome, Ok of the list of pattern strings,
\* when every id is inside self_.patterns.
Lookup(pats, ids) ==
    {Ok(v) : v \in LookupFrom(pats, ids, 1, 0)}
    \cup (IF \A k \in 1..Len(ids) : InBounds(pats, ids[k]) THEN {} ELSE {Crashed})

\* Mutants of FindDispatch: one iterator for every match_kind.
FindDispatchAlwaysLeftmost(a, kind, bytes) == leftmost_find_iter(a, bytes)
FindDispatchAlwaysStandard(a, kind, bytes) == find_iter(a, bytes)
FindDispatchSwapped(a, kind, bytes) ==
    IF kind = "Standard" THEN leftmost_find_iter(a, bytes) ELSE find_iter(a, bytes)

\* match match_kind { Standard => find_iter, Leftmost* => leftmost_find_iter }
FindDispatch(a, kind, bytes) ==
    IF kind = "Standard" THEN find_iter(a, bytes) ELSE leftmost_find_iter(a, bytes)

TupleOps == {"find", "find_overlapping", "find_overlapping_no_suffix"}
StringOps == {"find_as_strings", "find_overlapping_as_strings",
              "find_overlapping_no_suffix_as_strings"}
OverlappingOps == {"find_overlapping", "find_overlapping_as_strings",
                   "find_overlapping_no_suffix",
                   "find_overlapping_no_suffix_as_strings"}
Ops == TupleOps \cup StringOps

\* Mutant of IterOf: find_overlapping calls the no-suffix iterator.
IterOfOverlappingNoSuffix(o, a, kind, bytes) ==
    IF o \in {"find", "find_as_strings"} THEN FindDispatch(a, kind, bytes)
    ELSE IF o = "find_overlapping_as_strings" THEN find_overlapping_iter(a, bytes)
         ELSE find_overlapping_no_suffix_iter(a, bytes)

\* Mutant of IterOf: find_overlapping_no_suffix calls the overlapping
\* iterator.
IterOfNoSuffixOverlapping(o, a, kind, bytes) ==
    IF o \in {"find", "find_as_strings"} THEN FindDispatch(a, kind, bytes)
    ELSE IF o = "find_overlapping_no_suffix_as_strings"
         THEN find_overlapping_no_suffix_iter(a, bytes)
         ELSE find_overlapping_iter(a, bytes)

\* The iterator each query runs over the haystack.
IterOf(o, a, kind, bytes) ==
    IF o \in {"find", "find_as_strings"} THEN FindDispatch(a, kind, bytes)
    ELSE IF o \in {"find_overlapping", "find_overlapping_as_strings"}
         THEN find_overlapping_iter(a, bytes)
         ELSE find_overlapping_no_suffix_iter(a, bytes)

Callers == 1..NumCallers
\* The caller of the one-caller specification.
Main == CHOOSE t \in Callers : \A u \in Callers : t <= u

\* The automaton (patterns, match_kind, pma) and, per caller, the call it is
\* in: pc is its position, op and haystack its arguments, pos_map, matches
\* (the value of the closure of a tuple query) and pattern_ids (the value of
\* the closure of a string query) its locals, ret what it returned.
VARIABLES patterns, match_kind, pma, pc, op, haystack, pos_map, matches,
          pattern_ids, ret

vars == <<patterns, match_kind, pma, pc, op, haystack, pos_map, matches,
          pattern_ids, ret>>
automaton == <<patterns, match_kind, pma>>

\* Automaton::new with the given argument sets: the states in which
\* construction succeeded, no call made yet.
New(lists) ==
    /\ patterns \in lists
    /\ match_kind \in MatchKinds
    /\ pma = Build([i \in 1..Len(patterns) |-> extract(patterns[i])], match_kind)
    /\ ~pma.error
    /\ pc = [t \in Callers |-> "idle"]
    /\ op = [t \in Callers |-> "none"]
    /\ haystack = [t \in Callers |-> <<>>]
    /\ pos_map = [t \in Callers |-> <<>>]
    /\ matches = [t \in Callers |-> <<>>]
    /\ pattern_ids = [t \in Callers |-> <<>>]
    /\ ret = [t \in Callers |-> None]

Init == New(PatternLists)

\* A crash ends the process and with it every caller.
Alive == \A t \in Callers : pc[t] # "crashed"

\* A call runs in three phases: begin with the interpreter lock held, the
\* closure of py.allow_threads with the lock released (fill, search), finish
\* with the lock held again.  Callers interleave between the steps.

\* Lock held, up to py.allow_threads.  The overlapping family checks
\* match_kind and returns the error; find allocates its pos_map (the other
\* tuple queries allocate theirs inside the closure).
begin(t, o, h) ==
    /\ Alive
    /\ pc[t] = "idle"
    /\ op' = [op EXCEPT ![t] = o]
    /\ haystack' = [haystack EXCEPT ![t] = h]
    /\ IF o \in OverlappingOps /\ NotStandard(match_kind)
       THEN /\ pc' = [pc EXCEPT ![t] = "returned"]
            /\ ret' = [ret EXCEPT ![t] = ValueError(MustBeStandard)]
            /\ UNCHANGED pos_map
       ELSE /\ pc' = [pc EXCEPT ![t] = "released"]
            /\ pos_map' = IF o = "find"
                          THEN LocalPosMap(pos_map, t, AllocPosMap(extract(h)))
                          ELSE pos_map
            /\ UNCHANGED ret
    /\ UNCHANGED <<matches, pattern_ids, automaton>>

\* Lock released, tuple queries: find_overlapping and
\* find_overlapping_no_suffix allocate pos_map here; the loop over
\* char_indices fills it.  A write outside pos_map is undefined behaviour:
\* it lands in memory that is not the vector's, or the process ends.
fill(t) ==
    /\ Alive
    /\ pc[t] = "released"
    /\ op[t] \in TupleOps
    /\ LET bytes == extract(haystack[t])
           pm == IF op[t] = "find" THEN pos_map[t] ELSE AllocPosMap(bytes)
       IN  \E crash \in IF FillInBounds(pm, bytes) THEN {FALSE} ELSE {FALSE, TRUE} :
              IF crash
              THEN /\ pc' = [pc EXCEPT ![t] = "crashed"]
                   /\ ret' = [ret EXCEPT ![t] = Crashed]
                   /\ UNCHANGED pos_map
              ELSE /\ pc' = [pc EXCEPT ![t] = "filled"]
                   /\ pos_map' = LocalPosMap(pos_map, t, FillPosMap(pm, bytes))
                   /\ UNCHANGED ret
    /\ UNCHANGED <<op, haystack, matches, pattern_ids, automaton>>

\* Lock released: the iterator runs over the haystack.  A tuple query
\* translates the offsets of the matches through pos_map, a string query
\* collects the pattern ids.
search(t) ==
    /\ Alive
    /\ LET ms == IterOf(op[t], pma, match_kind, extract(haystack[t])) IN
       \/ /\ pc[t] = "filled"
          /\ \E r \in Translate(pos_map[t], ms) :
                IF r = Crashed
                THEN /\ pc' = [pc EXCEPT ![t] = "crashed"]
                     /\ ret' = [ret EXCEPT ![t] = r]
                     /\ UNCHANGED matches
                ELSE /\ pc' = [pc EXCEPT ![t] = "collected"]
                     /\ matches' = [matches EXCEPT ![t] = r.value]
                     /\ UNCHANGED ret
          /\ UNCHANGED pattern_ids
       \/ /\ pc[t] = "released"
          /\ op[t] \in StringOps
          /\ pc' = [pc EXCEPT ![t] = "collected"]
          /\ pattern_ids' = [pattern_ids EXCEPT ![t] = Values(ms)]
          /\ UNCHANGED <<matches, ret>>
    /\ UNCHANGED <<op, haystack, pos_map, automaton>>

\* Lock held again: a tuple query returns the value of the closure, a string
\* query looks the ids up in self_.patterns and returns the strings.
finish(t) ==
    /\ Alive
    /\ pc[t] = "collected"
    /\ \E r \in IF op[t] \in TupleOps THEN {Ok(matches[t])}
                ELSE Lookup(patterns, pattern_ids[t]) :
          /\ pc' = [pc EXCEPT ![t] = IF r = Crashed THEN "crashed" ELSE "returned"]
          /\ ret' = [ret EXCEPT ![t] = r]
    /\ UNCHANGED <<op, haystack, pos_map, matches, pattern_ids, automaton>>

\* The caller takes the result; the call's locals are dropped.
Return(t) ==
    /\ Alive
    /\ pc[t] = "returned"
    /\ pc' = [pc EXCEPT ![t] = "idle"]
    /\ op' = [op EXCEPT ![t] = "none"]
    /\ haystack' = [haystack EXCEPT ![t] = <<>>]
    /\ pos_map' = [pos_map EXCEPT ![t] = <<>>]
    /\ matches' = [matches EXCEPT ![t] = <<>>]
    /\ pattern_ids' = [pattern_ids EXCEPT ![t] = <<>>]
    /\ ret' = [ret EXCEPT ![t] = None]
    /\ UNCHANGED automaton

\* One caller, one call at a time, every pattern list and haystack.
Next ==
    \/ \E o \in Ops, h \in Haystacks : begin(Main, o, h)
    \/ fill(Main)
    \/ search(Main)
    \/ finish(Main)
    \/ Return(Main)

Spec == Init /\ [][Next]_vars

\* ------------------------------------------------------ concurrent callers
ConcPatternLists == { << <<97, 98>>, <<97>>, <<97, 98, 99, 100>> >> }
ConcHaystacks == {DocHaystack, <<97, 233>>}

InitConc == New(ConcPatternLists)

\* Every caller, calls interleaved at the steps.
NextConc ==
    \E t \in Callers :
        \/ \E o \in Ops, h \in ConcHaystacks : begin(t, o, h)
        \/ fill(t)
        \/ search(t)
        \/ finish(t)
        \/ Return(t)

SpecConc == InitConc /\ [][NextConc]_vars

\* ------------------------------------------------------------ references
Returned(t, o) == pc[t] = "returned" /\ op[t] = o

\* Every <<start, end, id>> in codepoints such that the haystack's
\* codepoints in [start, end) are pattern id.
Occurrences(pats, h) ==
    {m \in (0..Len(h)) \X (0..Len(h)) \X (0..(Len(pats) - 1)) :
        m[1] < m[2] /\ SubSeq(h, m[1] + 1, m[2]) = pats[m[3] + 1]}

MinOf(S) == CHOOSE x \in S : \A y \in S : x <= y
MaxOf(S) == CHOOSE x \in S : \A y \in S : x >= y

Elements(v) == {v[k] : k \in 1..Len(v)}

\* Standard find: from the cursor, the earliest end of an occurrence that
\* starts at or after the cursor, the longest occurrence ending there, and on
\* from its end.
RECURSIVE RefStandard(_, _, _)
RefStandard(pats, h, cursor) ==
    LET occ == {m \in Occurrences(pats, h) : m[1] >= cursor} IN
    IF occ = {} THEN <<>>
    ELSE LET e == MinOf({m[2] : m \in occ})
             st == MinOf({m[1] : m \in {x \in occ : x[2] = e}})
             m == CHOOSE x \in occ : x[1] = st /\ x[2] = e
         IN  <<m>> \o RefStandard(pats, h, e)

\* Leftmost find: from the cursor, the smallest start of an occurrence, there
\* the longest occurrence (LeftmostLongest) or the one with the smallest id
\* (LeftmostFirst), and on from its end.
RECURSIVE RefLeftmost(_, _, _, _)
RefLeftmost(pats, h, cursor, kind) ==
    LET occ == {m \in Occurrences(pats, h) : m[1] >= cursor} IN
    IF occ = {} THEN <<>>
    ELSE LET st == MinOf({m[1] : m \in occ})
             here == {x \in occ : x[1] = st}
             m == IF kind = "LeftmostLongest"
                  THEN CHOOSE x \in here : x[2] = MaxOf({y[2] : y \in here})
                  ELSE CHOOSE x \in here : x[3] = MinOf({y[3] : y \in here})
         IN  <<m>> \o RefLeftmost(pats, h, m[2], kind)

\* The trie node the automaton is at after the first e codepoints of h: the
\* longest suffix of them that is a prefix of a pattern.
NodeAt(pats, h, e) ==
    LET nodes == UNION {Prefixes(pats[i]) : i \in 1..Len(pats)}
        k == MinOf({j \in 0..e : SubSeq(h, j + 1, e) \in nodes})
    IN  SubSeq(h, k + 1, e)

\* Byte offset at which codepoint i (1-based; Len(h) + 1 for the end) of h
\* begins in the UTF-8 encoding of h.
ByteOffset(h, i) == Len(extract(SubSeq(h, 1, i - 1)))

\* ---------------------------------------------------------------- claims
\* C1: on a LEFTMOST_LONGEST or LEFTMOST_FIRST automaton each of the four
\* overlapping-family queries fails with the error "match_kind must be
\* STANDARD" and returns no match list; on a STANDARD automaton none of them
\* raises it.
C1_OverlappingNeedsStandard ==
    \A t \in Callers :
        (pc[t] = "returned" /\ op[t] \in OverlappingOps) =>
            IF match_kind = "Standard"
            THEN ret[t].kind = "Ok"
            ELSE /\ ret[t] = ValueError(MustBeStandard)
                 /\ pos_map[t] = <<>>
                 /\ matches[t] = <<>>
                 /\ pattern_ids[t] = <<>>

C1_Witness ==
    /\ match_kind = "LeftmostFirst"
    /\ Returned(Main, "find_overlapping_no_suffix_as_strings")
    /\ ret[Main] = ValueError(MustBeStandard)

\* C2: every match (start, end, value) returned by a tuple-returning query
\* satisfies 0 <= start <= end <= number of codepoints of the haystack and
\* 0 <= value < number of patterns.
C2_MatchesInRange ==
    \A t \in Callers :
        (pc[t] = "returned" /\ op[t] \in TupleOps /\ ret[t].kind = "Ok") =>
            \A k \in 1..Len(ret[t].value) :
                LET m == ret[t].value[k] IN
                /\ m[1] \in 0..Len(haystack[t])
                /\ m[2] \in 0..Len(haystack[t])
                /\ m[1] <= m[2]
                /\ m[3] \in 0..(Len(patterns) - 1)

\* A LEFTMOST_LONGEST find on a haystack with a two-byte character whose
\* last match ends at the end of the haystack.
C2_Witness ==
    /\ Returned(Main, "find")
    /\ match_kind = "LeftmostLongest"
    /\ haystack[Main] = <<233, 97, 233>>
    /\ ret[Main].kind = "Ok"
    /\ Len(ret[Main].value) > 0
    /\ ret[Main].value[Len(ret[Main].value)][2] = 3

\* C3: on a STANDARD automaton find_overlapping returns exactly one record
\* for every occurrence of every pattern, none missing and none spurious,
\* in non-decreasing order of end offset.
C3_OverlappingAll ==
    \A t \in Callers :
        (Returned(t, "find_overlapping") /\ match_kind = "Standard") =>
            /\ ret[t].kind = "Ok"
            /\ Elements(ret[t].value) = Occurrences(patterns, haystack[t])
            /\ Len(ret[t].value) = Cardinality(Occurrences(patterns, haystack[t]))
            /\ \A k \in 1..(Len(ret[t].value) - 1) :
                   ret[t].value[k][2] <= ret[t].value[k + 1][2]

C3_Witness ==
    /\ Returned(Main, "find_overlapping")
    /\ match_kind = "Standard"
    /\ patterns = << <<98, 99, 100>>, <<97, 98>>, <<97>> >>
    /\ haystack[Main] = DocHaystack
    /\ ret[Main] = Ok(<< <<0, 1, 2>>, <<0, 2, 1>>, <<1, 4, 0>> >>)

\* C4: on a STANDARD automaton the matches of find do not overlap and are in
\* left-to-right order (the end of each is at most the start of the next),
\* and each is the longest pattern ending at the earliest end position
\* reachable after the end of the previous match.
C4_StandardFind ==
    \A t \in Callers :
        (Returned(t, "find") /\ match_kind = "Standard") =>
            /\ ret[t] = Ok(RefStandard(patterns, haystack[t], 0))
            /\ \A k \in 1..(Len(ret[t].value) - 1) :
                   /\ ret[t].value[k][2] <= ret[t].value[k + 1][1]
                   /\ ret[t].value[k][1] < ret[t].value[k + 1][1]
                   /\ ret[t].value[k][2] < ret[t].value[k + 1][2]

C4_Witness ==
    /\ Returned(Main, "find")
    /\ match_kind = "Standard"
    /\ patterns = << <<98, 99, 100>>, <<97, 98>>, <<97>> >>
    /\ haystack[Main] = DocHaystack
    /\ ret[Main] = Ok(<< <<0, 1, 2>>, <<1, 4, 0>> >>)

\* C5: on a LEFTMOST_LONGEST automaton find equals the reference procedure:
\* the smallest start at or after the cursor at which a pattern occurs, the
\* longest pattern occurring there, the cursor moved to its end, repeated.
C5_LeftmostLongest ==
    \A t \in Callers :
        (Returned(t, "find") /\ match_kind = "LeftmostLongest") =>
            ret[t] = Ok(RefLeftmost(patterns, haystack[t], 0, "LeftmostLongest"))

C5_Witness ==
    /\ Returned(Main, "find")
    /\ match_kind = "LeftmostLongest"
    /\ patterns = << <<97, 98>>, <<97>>, <<97, 98, 99, 100>> >>
    /\ haystack[Main] = DocHaystack
    /\ ret[Main] = Ok(<< <<0, 4, 2>> >>)

\* C6: on a LEFTMOST_FIRST automaton find equals the reference procedure:
\* the smallest start at or after the cursor at which a pattern occurs, among
\* the patterns occurring there the one with the smallest insertion-order id,
\* the cursor moved to its end, repeated.
C6_LeftmostFirst ==
    \A t \in Callers :
        (Returned(t, "find") /\ match_kind = "LeftmostFirst") =>
            ret[t] = Ok(RefLeftmost(patterns, haystack[t], 0, "LeftmostFirst"))

C6_Witness ==
    /\ Returned(Main, "find")
    /\ match_kind = "LeftmostFirst"
    /\ patterns = << <<97, 98>>, <<97>>, <<97, 98, 99, 100>> >>
    /\ haystack[Main] = DocHaystack
    /\ ret[Main] = Ok(<< <<0, 2, 0>> >>)

\* The occurrences that end exactly at the trie node the automaton is at:
\* for each end position e, in ascending order, the pattern equal to
\* NodeAt(pats, h, e) when that node is a pattern.
RECURSIVE RefDirect(_, _, _)
RefDirect(pats, h, e) ==
    IF e > Len(h) THEN <<>>
    ELSE LET node == NodeAt(pats, h, e)
             ids == {i \in 1..Len(pats) : pats[i] = node}
         IN  (IF ids = {} THEN <<>>
              ELSE <<<<e - Len(node), e, (CHOOSE i \in ids : TRUE) - 1>>>>)
             \o RefDirect(pats, h, e + 1)

TupleOpOf(o) ==
    IF o = "find_as_strings" THEN "find"
    ELSE IF o = "find_overlapping_as_strings" THEN "find_overlapping"
    ELSE "find_overlapping_no_suffix"

TupleVariant(o, bytes) ==
    Translate(PosMap(bytes), IterOf(TupleOpOf(o), pma, match_kind, bytes))

\* C8: a string-returning query permitted by the match_kind returns a list
\* of the same length and order as its tuple-returning variant, whose k-th
\* element is the text of the pattern whose id is the value of the k-th
\* tuple; every id used for the lookup is within the stored pattern list.
C8_StringsFollowTuples ==
    \A t \in Callers :
        (pc[t] = "returned" /\ op[t] \in StringOps
           /\ (op[t] \in OverlappingOps => match_kind = "Standard")) =>
            \A r \in TupleVariant(op[t], extract(haystack[t])) :
                /\ r.kind = "Ok"
                /\ ret[t].kind = "Ok"
                /\ Len(ret[t].value) = Len(r.value)
                /\ Len(pattern_ids[t]) = Len(r.value)
                /\ \A k \in 1..Len(r.value) :
                       /\ pattern_ids[t][k] \in 0..(Len(patterns) - 1)
                       /\ ret[t].value[k] = patterns[r.value[k][3] + 1]

C8_Witness ==
    /\ Returned(Main, "find_overlapping_as_strings")
    /\ match_kind = "Standard"
    /\ patterns = << <<98, 99, 100>>, <<97, 98>>, <<97>> >>
    /\ haystack[Main] = DocHaystack
    /\ ret[Main] = Ok(<< <<97>>, <<97, 98>>, <<98, 99, 100>> >>)

\* The outcomes of a call running alone, start to end, as the first call on
\* a freshly built automaton.
FreshResult(o, h) ==
    LET a == Build([i \in 1..Len(patterns) |-> extract(patterns[i])], match_kind)
        bytes == extract(h)
    IN  IF o \in OverlappingOps /\ match_kind # "Standard"
        THEN {ValueError(MustBeStandard)}
        ELSE IF o \in TupleOps
             THEN Translate(PosMap(bytes), IterOf(o, a, match_kind, bytes))
             ELSE Lookup(patterns, Values(IterOf(o, a, match_kind, bytes)))

\* No call crashes, a caller that is in no call holds no locals of one, and
\* a call that has returned returned the one outcome of the call running
\* alone, its pos_map being the one it built alone.
C9_ResultsFresh ==
    \A t \in Callers :
        /\ pc[t] # "crashed"
        /\ pc[t] = "idle" =>
               pos_map[t] = <<>> /\ matches[t] = <<>> /\ pattern_ids[t] = <<>>
        /\ pc[t] = "returned" =>
               /\ FreshResult(op[t], haystack[t]) = {ret[t]}
               /\ (op[t] \in TupleOps /\ ret[t].kind = "Ok") =>
                      pos_map[t] = PosMap(extract(haystack[t]))

\* C9: no query changes the automaton, and every call, whatever calls
\* succeeded or failed before it or run interleaved with it, returns what it
\* would return as the first call on a freshly built automaton.
C9_Immutable == []C9_ResultsFresh /\ [][automaton' = automaton]_vars

\* One caller has failed with the configuration error while the other, on
\* the same automaton, is inside a query, and this one then returns matches.
C9_Witness ==
    /\ match_kind = "LeftmostLongest"
    /\ Returned(1, "find_overlapping")
    /\ ret[1] = ValueError(MustBeStandard)
    /\ Returned(2, "find")
    /\ haystack[2] = DocHaystack
    /\ ret[2] = Ok(<< <<0, 4, 2>> >>)

\* C10: the position map of a tuple-returning query has one entry per byte
\* offset 0..byte_length, maps each byte offset at which a codepoint begins
\* to that codepoint's index, maps the one-past-the-end offset to the number
\* of codepoints (0 for the empty haystack), and every returned offset is
\* the image of a codepoint boundary.
C10_PosMap ==
    \A t \in Callers :
        (pc[t] = "returned" /\ op[t] \in TupleOps /\ ret[t].kind = "Ok") =>
            LET h == haystack[t]
                pm == pos_map[t]
                bounds == {ByteOffset(h, i) : i \in 1..(Len(h) + 1)}
            IN  /\ Len(pm) = Len(extract(h)) + 1
                /\ \A i \in 1..Len(h) : pm[ByteOffset(h, i) + 1] = i - 1
                /\ pm[Len(pm)] = Len(h)
                /\ \A k \in 1..Len(ret[t].value) :
                       /\ \E b \in bounds : pm[b + 1] = ret[t].value[k][1]
                       /\ \E b \in bounds : pm[b + 1] = ret[t].value[k][2]
====
